---- MODULE Spec2Model ----
(***************************************************************************)
(* Kv-Creator: the indentation-sensitive parser of .kv files (kvparser.py, *)
(* KvFile.parse) and the merge of the parsed widget tree with the live     *)
(* widget tree (KvWidget.populate).                                        *)
(*                                                                         *)
(* Objects live in a heap: a sequence of records, an object's reference is *)
(* its index.  A record has exactly the attributes the Python object has,  *)
(* so a missing attribute (AttributeError) is a field that is not in the   *)
(* record's DOMAIN.  A line of the file is [ws, content]: its leading      *)
(* whitespace and what line.lstrip() leaves, both as sequences of          *)
(* one-character strings; the trailing newline is left out of content.     *)
(***************************************************************************)
EXTENDS Integers, Sequences, FiniteSets, TLC

VARIABLES file, line_no, heap, last_indent, current_root, new_element,
          pc, error, rootRule, elements, live, assigned

\* the main window: its fields, the worker threads it has started, the
\* queue of the open in progress, the handler that runs or ran last, its
\* outcome, the fields as they were when openFile was entered, the file at
\* the path, the number of menu actions and the exit code of the application
VARIABLES demoThread, rootWidget, kvfile, threads, rootQueue, winPc, handler,
          outcome, before, disk, calls, exitCode

parserVars == <<file, line_no, heap, last_indent, current_root, new_element,
                pc, error, rootRule, elements, live, assigned>>

winVars == <<demoThread, rootWidget, kvfile, threads, rootQueue, winPc, handler,
             outcome, before, disk, calls, exitCode>>

vars == <<file, line_no, heap, last_indent, current_root, new_element,
          pc, error, rootRule, elements, live, assigned,
          demoThread, rootWidget, kvfile, threads, rootQueue, winPc, handler,
          outcome, before, disk, calls, exitCode>>

(* ------------------------------ bounds --------------------------------- *)
MaxLines == 4
MaxSpaces == 1
MaxMergeLines == 3
MaxMergeSpaces == 2
MaxLive == 3
MaxWs == 2
MaxLexLines == 2
MaxCalls == 3

(* ----------------------------- characters ------------------------------ *)
None == 0

WordChars == {"A", "B", "p", "v", "c"}

SpaceChars == {" ", "\t", "\f"}

TabSize == 8

(* ------------------------------ helpers -------------------------------- *)
Last(s) == s[Len(s)]

Reverse(s) == [i \in 1..Len(s) |-> s[Len(s) + 1 - i]]

RECURSIVE Spaces(_)
Spaces(n) == IF n = 0 THEN <<>> ELSE <<" ">> \o Spaces(n - 1)

\* length of the longest prefix of s made of word characters (\w+ is greedy)
RECURSIVE WordPrefixLen(_)
WordPrefixLen(s) ==
    IF s = <<>> \/ Head(s) \notin WordChars THEN 0
    ELSE 1 + WordPrefixLen(Tail(s))

\* s.lstrip() restricted to the whitespace of the model
RECURSIVE LStrip(_)
LStrip(s) ==
    IF s = <<>> \/ Head(s) \notin SpaceChars THEN s ELSE LStrip(Tail(s))

AllSpace(s) == \A i \in 1..Len(s) : s[i] \in SpaceChars

(* ------------------------- the four line formats ----------------------- *)
\* a match is [matched |-> TRUE, groups |-> <<...>>] or NoMatch
NoMatch == [matched |-> FALSE]

\* commentRE = ^#(.*)$
commentRE(s) ==
    IF Len(s) >= 1 /\ s[1] = "#"
    THEN [matched |-> TRUE, groups |-> <<Tail(s)>>]
    ELSE NoMatch

\* widgetRE = ^(\w+):\s*$
widgetRE(s) ==
    LET k == WordPrefixLen(s) IN
    IF /\ k >= 1
       /\ Len(s) >= k + 1
       /\ s[k + 1] = ":"
       /\ AllSpace(SubSeq(s, k + 2, Len(s)))
    THEN [matched |-> TRUE, groups |-> <<SubSeq(s, 1, k)>>]
    ELSE NoMatch

\* classRE = ^\<(\w+)\>:\s*$
classRE(s) ==
    LET k == IF s = <<>> THEN 0 ELSE WordPrefixLen(Tail(s)) IN
    IF /\ Len(s) >= 1
       /\ s[1] = "<"
       /\ k >= 1
       /\ Len(s) >= k + 3
       /\ s[k + 2] = ">"
       /\ s[k + 3] = ":"
       /\ AllSpace(SubSeq(s, k + 4, Len(s)))
    THEN [matched |-> TRUE, groups |-> <<SubSeq(s, 2, k + 1)>>]
    ELSE NoMatch

\* propRE without the \s* before the value: ^(\w+):(.+)$
propREKeepSpace(s) ==
    LET k == WordPrefixLen(s)
        rest == SubSeq(s, k + 2, Len(s))
    IN
    IF /\ k >= 1
       /\ Len(s) >= k + 2
       /\ s[k + 1] = ":"
    THEN [matched |-> TRUE, groups |-> <<SubSeq(s, 1, k), rest>>]
    ELSE NoMatch

\* propRE = ^(\w+):\s*(.+)$   (\s* is greedy, but gives one character back
\* to .+ when everything after the colon is whitespace)
propRE(s) ==
    LET k == WordPrefixLen(s)
        rest == SubSeq(s, k + 2, Len(s))
        stripped == LStrip(rest)
    IN
    IF /\ k >= 1
       /\ Len(s) >= k + 2
       /\ s[k + 1] = ":"
    THEN [matched |-> TRUE,
          groups |-> <<SubSeq(s, 1, k),
                       IF stripped # <<>> THEN stripped ELSE <<Last(rest)>> >>]
    ELSE NoMatch

\* the loop over KvFile.rule_formats: the first format that matches
rule_formats(s) ==
    IF commentRE(s).matched THEN [line_type |-> "comment", line_data |-> commentRE(s)]
    ELSE IF widgetRE(s).matched THEN [line_type |-> "widget", line_data |-> widgetRE(s)]
    ELSE IF classRE(s).matched THEN [line_type |-> "class", line_data |-> classRE(s)]
    ELSE IF propRE(s).matched THEN [line_type |-> "property", line_data |-> propRE(s)]
    ELSE [line_type |-> "None", line_data |-> NoMatch]

(* ----------------------------- indentation ----------------------------- *)
\* a tab replaced by 8 spaces, whatever the column
RECURSIVE expandtabsFixed(_, _)
expandtabsFixed(s, col) ==
    IF s = <<>> THEN <<>>
    ELSE IF Head(s) = "\t"
         THEN Spaces(TabSize) \o expandtabsFixed(Tail(s), col + TabSize)
         ELSE <<Head(s)>> \o expandtabsFixed(Tail(s), col + 1)

\* str.expandtabs(): a tab becomes the spaces up to the next multiple of 8
RECURSIVE expandtabs(_, _)
expandtabs(s, col) ==
    IF s = <<>> THEN <<>>
    ELSE IF Head(s) = "\t"
         THEN LET n == TabSize - (col % TabSize)
              IN  Spaces(n) \o expandtabs(Tail(s), col + n)
         ELSE <<Head(s)>> \o expandtabs(Tail(s), col + 1)

\* indent_count without expandtabs(): a tab is an invalid character
indent_countNoTabs(s) ==
    IF \A i \in 1..Len(s) : s[i] = " "
    THEN [raised |-> FALSE, res |-> Len(s)]
    ELSE [raised |-> TRUE,
          char |-> s[CHOOSE i \in 1..Len(s) :
                        s[i] # " " /\ \A j \in 1..(i - 1) : s[j] = " "]]

\* indent_count(s, line): the number of spaces, or raises on another character
indent_count(s) ==
    LET e == expandtabs(s, 0) IN
    IF \A i \in 1..Len(e) : e[i] = " "
    THEN [raised |-> FALSE, res |-> Len(e)]
    ELSE [raised |-> TRUE,
          char |-> e[CHOOSE i \in 1..Len(e) :
                        e[i] # " " /\ \A j \in 1..(i - 1) : e[j] = " "]]

(* ------------------------------ elements ------------------------------- *)
\* a comment that is given an elements list, as a widget has
KvCommentWithElements(text) == [kind |-> "KvComment", text |-> text, elements |-> <<>>]

KvComment(text) == [kind |-> "KvComment", text |-> text]

KvWidget(name) == [kind |-> "KvWidget", name |-> name, elements |-> <<>>, widget |-> None]

KvProperty(name, value) == [kind |-> "KvProperty", name |-> name, value |-> value]

KvClassRule(name) == [kind |-> "KvClassRule", name |-> name]

\* a fake root with indent_level 0 in place of -1
FakeRootZero == [kind |-> "KvElement", elements |-> <<>>, indent_level |-> 0, parent |-> None]

\* the fake root element of parse(); it is object 1 of the heap
FakeRoot == [kind |-> "KvElement", elements |-> <<>>, indent_level |-> 0 - 1, parent |-> None]

root == 1

parse_line(parent, indent_level, line_type, data) ==
    LET res == IF line_type = "comment" THEN KvComment(data.groups[1])
               ELSE IF line_type = "widget" THEN KvWidget(data.groups[1])
               ELSE IF line_type = "class" THEN KvClassRule(data.groups[1])
               ELSE KvProperty(data.groups[1], data.groups[2])
    IN  res @@ [indent_level |-> indent_level, parent |-> parent]

is_widget(h, e) == h[e].kind = "KvWidget"

HasAttr(h, e, a) == e # None /\ a \in DOMAIN h[e]

(* ------------------------ KvFile.parse, per line ----------------------- *)
NoError == [type |-> "none"]

\* the walk with > in place of >=
RECURSIVE WalkUpStrict(_, _, _)
WalkUpStrict(h, cr, indent_level) ==
    IF h[cr].indent_level > indent_level
    THEN IF h[cr].parent = None
         THEN [raised |-> TRUE]
         ELSE WalkUpStrict(h, h[cr].parent, indent_level)
    ELSE [raised |-> FALSE, current_root |-> cr]

\* the walk with `if` in place of `while`: one step up at most
WalkUpOnce(h, cr, indent_level) ==
    IF h[cr].indent_level >= indent_level
    THEN IF h[cr].parent = None
         THEN [raised |-> TRUE]
         ELSE [raised |-> FALSE, current_root |-> h[cr].parent]
    ELSE [raised |-> FALSE, current_root |-> cr]

\* "higher scope - need to go up until we find our parent"
RECURSIVE WalkUp(_, _, _)
WalkUp(h, cr, indent_level) ==
    IF h[cr].indent_level >= indent_level
    THEN IF h[cr].parent = None
         THEN [raised |-> TRUE]
         ELSE WalkUp(h, h[cr].parent, indent_level)
    ELSE [raised |-> FALSE, current_root |-> cr]

\* "identify the scope": the current_root the new element is inserted under
Scope(st, indent_level) ==
    IF indent_level < st.last_indent
    THEN WalkUp(st.heap, st.current_root, indent_level)
    ELSE IF indent_level > st.last_indent
         THEN [raised |-> FALSE, current_root |-> st.new_element]
         ELSE [raised |-> FALSE, current_root |-> st.current_root]

\* a blank line that resets the indentation of the previous line
SkipBlankResetIndent(st, n) == [st EXCEPT !.line_no = n, !.last_indent = 0]

\* `continue` on a line that is empty after lstrip()
SkipBlank(st, n) == [st EXCEPT !.line_no = n]

Raise(st, n, err) == [st EXCEPT !.line_no = n, !.pc = "raised", !.error = err]

\* "add new element": parse_line, then current_root.elements.append
AddElement(st, n, cr, indent_level, fmt) ==
    LET e == parse_line(cr, indent_level, fmt.line_type, fmt.line_data)
        id == Len(st.heap) + 1
        h1 == Append(st.heap, e)
    IN  IF HasAttr(h1, cr, "elements")
        THEN [st EXCEPT !.line_no = n,
                        !.heap = [h1 EXCEPT ![cr].elements = Append(@, id)],
                        !.current_root = cr,
                        !.new_element = id,
                        !.last_indent = indent_level]
        ELSE [st EXCEPT !.line_no = n,
                        !.heap = h1,
                        !.current_root = cr,
                        !.new_element = id,
                        !.pc = "raised",
                        !.error = [type |-> "AttributeError", attr |-> "elements"]]

\* one iteration of `for (line_no, line) in enumerate(f, 1)`
ParseLine(st, line) ==
    LET n == st.line_no + 1
        ic == indent_count(line.ws)
        fmt == rule_formats(line.content)
        sc == Scope(st, ic.res)
    IN  IF Len(line.content) = 0 THEN SkipBlank(st, n)
        ELSE IF ic.raised
        THEN Raise(st, n, [type |-> "Exception", msg |-> "Invalid char",
                           char |-> ic.char, line |-> line])
        ELSE IF fmt.line_type = "None"
        THEN Raise(st, n, [type |-> "Exception", msg |-> "Parsing error on line",
                           line_no |-> n, line |-> line])
        ELSE IF sc.raised
        THEN Raise(st, n, [type |-> "AssertionError", at |-> "walk"])
        ELSE AddElement(st, n, sc.current_root, ic.res, fmt)

\* the locals of parse() before the first line
ParseStart ==
    [line_no |-> 0, heap |-> <<FakeRoot>>, last_indent |-> 0,
     current_root |-> root, new_element |-> None, pc |-> "reading",
     error |-> NoError]

\* the whole loop over the lines of a file; an exception ends it
RECURSIVE ParseLines(_, _)
ParseLines(st, lines) ==
    IF lines = <<>> \/ st.pc # "reading" THEN st
    ELSE ParseLines(ParseLine(st, Head(lines)), Tail(lines))

\* the end of parse without its assertion: the first widget is picked
EndOfParseNoAssert(h) ==
    LET widgets == SelectSeq(h[root].elements, LAMBDA e : is_widget(h, e)) IN
    [raised |-> FALSE,
     elements |-> h[root].elements,
     rootRule |-> IF Len(widgets) > 0 THEN widgets[1] ELSE None]

\* after the loop: the root rule is the only widget at top level
EndOfParse(h) ==
    LET widgets == SelectSeq(h[root].elements, LAMBDA e : is_widget(h, e)) IN
    IF Len(widgets) <= 1
    THEN [raised |-> FALSE,
          elements |-> h[root].elements,
          rootRule |-> IF Len(widgets) > 0 THEN widgets[1] ELSE None]
    ELSE [raised |-> TRUE]

(* --------------------------- KvWidget.populate ------------------------- *)
\* a live widget tree is [type, children]: the type name and the children
\* list of each live widget; live widget 1 is the root instance
NoLive == [type |-> <<>>, children |-> <<>>]

\* type(widget).__name__.split(".")[-1]
RECURSIVE SimpleName(_)
SimpleName(s) ==
    IF \E i \in 1..Len(s) : s[i] = "."
    THEN SimpleName(Tail(s))
    ELSE s

Min(a, b) == IF a <= b THEN a ELSE b

zip(a, b) == [i \in 1..Min(Len(a), Len(b)) |-> <<a[i], b[i]>>]

\* the pairing without reversed()
PairsForward(widgets, children) == zip(widgets, children)

\* zip(widgets, reversed(widget.children))
Pairs(widgets, children) == zip(widgets, Reverse(children))

\* the assertion with < in place of <=
CountOkStrict(widgets, children) == Len(widgets) < Len(children)

\* assert len(widgets) <= len(widget.children)
CountOk(widgets, children) == Len(widgets) <= Len(children)

\* populate returns the heap, the assignments `self.widget = widget` made so
\* far (in order) and whether an assertion failed (and in which call)
RECURSIVE populate(_, _, _, _, _)
RECURSIVE populate_each(_, _, _, _)
\* populate with the assignment made before the type check
populateAssignFirst(h, log, t, self, widget) ==
    LET h1 == [h EXCEPT ![self].widget = widget]
        log1 == Append(log, <<self, widget>>)
        widgets == SelectSeq(h1[self].elements, LAMBDA e : is_widget(h1, e))
    IN  IF h[self].name # SimpleName(t.type[widget])
        THEN [heap |-> h1, assigned |-> log1, raised |-> TRUE,
              error |-> [type |-> "AssertionError", at |-> "name", self |-> self, widget |-> widget]]
        ELSE IF ~CountOk(widgets, t.children[widget])
             THEN [heap |-> h1, assigned |-> log1, raised |-> TRUE,
                   error |-> [type |-> "AssertionError", at |-> "children",
                              self |-> self, widget |-> widget]]
             ELSE populate_each(h1, log1, t, Pairs(widgets, t.children[widget]))

populate(h, log, t, self, widget) ==
    IF h[self].name # SimpleName(t.type[widget])
    THEN [heap |-> h, assigned |-> log, raised |-> TRUE,
          error |-> [type |-> "AssertionError", at |-> "name", self |-> self, widget |-> widget]]
    ELSE LET h1 == [h EXCEPT ![self].widget = widget]
             log1 == Append(log, <<self, widget>>)
             widgets == SelectSeq(h1[self].elements, LAMBDA e : is_widget(h1, e))
         IN  IF ~CountOk(widgets, t.children[widget])
             THEN [heap |-> h1, assigned |-> log1, raised |-> TRUE,
                   error |-> [type |-> "AssertionError", at |-> "children",
                              self |-> self, widget |-> widget]]
             ELSE populate_each(h1, log1, t, Pairs(widgets, t.children[widget]))

\* the loop left after its first iteration
populate_eachFirstOnly(h, log, t, pairs) ==
    IF pairs = <<>>
    THEN [heap |-> h, assigned |-> log, raised |-> FALSE]
    ELSE populate(h, log, t, Head(pairs)[1], Head(pairs)[2])

\* for e, c in zip(...): e.populate(c)
populate_each(h, log, t, pairs) ==
    IF pairs = <<>>
    THEN [heap |-> h, assigned |-> log, raised |-> FALSE]
    ELSE LET r == populate(h, log, t, Head(pairs)[1], Head(pairs)[2])
         IN  IF r.raised THEN r
             ELSE populate_each(r.heap, r.assigned, t, Tail(pairs))

(* ------------------------------- inputs -------------------------------- *)
\* the contents of the lines that make an element: a comment, a widget,
\* a class rule, a property
ElementContents ==
    { <<"#", "c">>, <<"A", ":">>, <<"<", "A", ">", ":">>, <<"p", ":", " ", "v">> }

\* leading whitespace: runs of spaces and a tab
Indents == { Spaces(n) : n \in 0..MaxSpaces } \cup { <<"\t">> }

\* lines that are empty after lstrip()
BlankLines == [ws : { <<>>, <<" ", "\t">> }, content : { <<>> }]

\* a form feed in the indentation, and a content of none of the four formats
BadLines ==
    { [ws |-> <<"\f">>, content |-> <<"A", ":">>],
      [ws |-> <<" ">>, content |-> <<"A">>] }

Lines == [ws : Indents, content : ElementContents] \cup BlankLines \cup BadLines

\* the lines of the files that are merged: widgets and properties
MergeLines ==
    [ws : { Spaces(n) : n \in 0..MaxMergeSpaces },
     content : { <<"A", ":">>, <<"B", ":">>, <<"p", ":", " ", "v">> }]

LiveTypeNames == { <<"A">>, <<"B">> }

RECURSIVE SortedSeq(_)
SortedSeq(S) ==
    IF S = {} THEN <<>>
    ELSE LET m == CHOOSE x \in S : \A y \in S : x <= y
         IN  <<m>> \o SortedSeq(S \ {m})

\* every ordered tree of n live widgets, numbered in preorder
LiveTreesOfSize(n) ==
    { [type |-> ty, children |-> [w \in 1..n |-> SortedSeq({ j \in 2..n : par[j] = w })]] :
        ty \in [1..n -> LiveTypeNames],
        par \in { q \in [2..n -> 1..n] : \A j \in 2..n : q[j] < j } }

LiveTrees == UNION { LiveTreesOfSize(n) : n \in 1..MaxLive }

\* every leading whitespace of at most MaxWs spaces, tabs and form feeds
WsStrings == UNION { [1..n -> SpaceChars] : n \in 0..MaxWs }

\* contents with and without spaces after the colon, and one of no format
LexContents ==
    { <<"A", ":">>, <<"A", ":", " ">>, <<"p", ":", "v", " ">>,
      <<"<", "A", ">", ":">>, <<"#", " ", "c">>, <<"A">> }

\* the lines of the files that exercise indent_count and the formats
LexLines == [ws : WsStrings, content : LexContents] \cup { [ws |-> <<"\f">>, content |-> <<>>] }

(* ------------------------------- actions ------------------------------- *)
State ==
    [line_no |-> line_no, heap |-> heap, last_indent |-> last_indent,
     current_root |-> current_root, new_element |-> new_element,
     pc |-> pc, error |-> error]

\* an attribute that has not been assigned
Unset == [kind |-> "unset"]

\* MainWindow.__init__: only demoThread is set; no menu action has run
WindowInit ==
    /\ demoThread = None
    /\ rootWidget = Unset
    /\ kvfile = Unset
    /\ threads = <<>>
    /\ rootQueue = <<>>
    /\ winPc = "idle"
    /\ handler = "none"
    /\ outcome = [raised |-> FALSE]
    /\ before = [demoThread |-> None, rootWidget |-> Unset, kvfile |-> Unset]
    /\ calls = 0
    /\ exitCode = None

ParseInit ==
    /\ file = <<>>
    /\ line_no = ParseStart.line_no
    /\ heap = ParseStart.heap
    /\ last_indent = ParseStart.last_indent
    /\ current_root = ParseStart.current_root
    /\ new_element = ParseStart.new_element
    /\ pc = ParseStart.pc
    /\ error = ParseStart.error
    /\ rootRule = None
    /\ elements = <<>>
    /\ live = NoLive
    /\ assigned = <<>>

Init == ParseInit /\ WindowInit /\ disk = <<>>

\* the loop reads the next line of the file
ReadLine(line) ==
    /\ pc = "reading"
    /\ LET st == ParseLine(State, line) IN
        /\ file' = Append(file, line)
        /\ line_no' = st.line_no
        /\ heap' = st.heap
        /\ last_indent' = st.last_indent
        /\ current_root' = st.current_root
        /\ new_element' = st.new_element
        /\ pc' = st.pc
        /\ error' = st.error
    /\ UNCHANGED <<rootRule, elements, live, assigned>>
    /\ UNCHANGED winVars

\* the file has no more lines
EndOfFile ==
    /\ pc = "reading"
    /\ LET r == EndOfParse(heap) IN
        IF r.raised
        THEN /\ pc' = "raised"
             /\ error' = [type |-> "AssertionError", at |-> "widgets"]
             /\ UNCHANGED <<rootRule, elements>>
        ELSE /\ pc' = "parsed"
             /\ rootRule' = r.rootRule
             /\ elements' = r.elements
             /\ UNCHANGED error
    /\ UNCHANGED <<file, line_no, heap, last_indent, current_root, new_element,
                   live, assigned>>
    /\ UNCHANGED winVars

\* self.kvfile.rootRule.populate(self.rootWidget) with a live root instance
Populate(t) ==
    /\ pc = "parsed"
    /\ live' = t
    /\ IF rootRule = None
       THEN /\ pc' = "raised"
            /\ error' = [type |-> "AttributeError", attr |-> "populate"]
            /\ UNCHANGED <<heap, assigned>>
       ELSE LET r == populate(heap, assigned, t, rootRule, 1) IN
            /\ heap' = r.heap
            /\ assigned' = r.assigned
            /\ IF r.raised
               THEN pc' = "raised" /\ error' = r.error
               ELSE pc' = "populated" /\ UNCHANGED error
    /\ UNCHANGED <<file, line_no, last_indent, current_root, new_element,
                   rootRule, elements>>
    /\ UNCHANGED winVars

(* ------------------------------ MainWindow ----------------------------- *)
\* the files that can be at the path "test.kv"
WindowFiles ==
    { <<[ws |-> <<>>, content |-> <<"A", ":">>]>>,
      <<[ws |-> <<>>, content |-> <<"A", ":">>], [ws |-> <<" ">>, content |-> <<"B", ":">>]>>,
      <<[ws |-> <<>>, content |-> <<"A", ":">>], [ws |-> <<>>, content |-> <<"B", ":">>]>>,
      <<[ws |-> <<>>, content |-> <<"#">>]>>,
      <<[ws |-> <<>>, content |-> <<"A">>]>> }

\* the widget trees the toolkit can build from the file
WindowLive == LiveTreesOfSize(1) \cup LiveTreesOfSize(2)

\* what the worker puts on the queue: the root widget of a live tree, or None
RootItem(t) == [kind |-> "root", tree |-> t]
NoneItem == [kind |-> "None"]

\* Thread.is_alive(): started and not yet terminated
is_alive(th) == th.state # "dead"

\* the guard of openFile with is_alive() negated
AlreadyOpenDead(dt, ths) == dt # None /\ ~is_alive(ths[dt])

\* the guard of openFile: a worker was started and is still alive
AlreadyOpen(dt, ths) == dt # None /\ is_alive(ths[dt])

\* KvFile(path): __init__ parses the file; an exception leaves no object
KvFileNew(lines) ==
    LET st == ParseLines(ParseStart, lines) IN
    IF st.pc = "raised" THEN [raised |-> TRUE, error |-> st.error]
    ELSE LET r == EndOfParse(st.heap) IN
         IF r.raised
         THEN [raised |-> TRUE, error |-> [type |-> "AssertionError", at |-> "widgets"]]
         ELSE [raised |-> FALSE,
               obj |-> [kind |-> "KvFile", heap |-> st.heap,
                        rootRule |-> r.rootRule, elements |-> r.elements]]

\* openFile after rootQueue.get() returned item: the fields it leaves and
\* the exception it raises, if any
openFileRest(item, kv, lines) ==
    LET k == KvFileNew(lines) IN
    IF k.raised
    THEN [kvfile |-> kv, raised |-> TRUE, error |-> k.error]
    ELSE IF item = NoneItem
    THEN [kvfile |-> k.obj, raised |-> TRUE,
          error |-> [type |-> "Exception", msg |-> "Failed to load file"]]
    ELSE IF k.obj.rootRule = None
    THEN [kvfile |-> k.obj, raised |-> TRUE,
          error |-> [type |-> "AttributeError", attr |-> "populate"]]
    ELSE LET r == populate(k.obj.heap, <<>>, item.tree, k.obj.rootRule, 1) IN
         [kvfile |-> [k.obj EXCEPT !.heap = r.heap], raised |-> r.raised,
          error |-> IF r.raised THEN r.error ELSE NoError]

\* the decorator: an exception is shown and the application is told to exit
ErrorHandler(raised, err) ==
    /\ outcome' = IF raised THEN [raised |-> TRUE, error |-> err] ELSE [raised |-> FALSE]
    /\ exitCode' = IF raised THEN 1 ELSE exitCode

\* the fields of the window
Fields == [demoThread |-> demoThread, rootWidget |-> rootWidget, kvfile |-> kvfile]

\* openFile up to rootQueue.get(): rejected while the worker is alive, else
\* a new queue and a new worker, and the handler blocks on the queue
OpenFile ==
    /\ winPc = "idle"
    /\ calls < MaxCalls
    /\ calls' = calls + 1
    /\ handler' = "openFile"
    /\ before' = Fields
    /\ IF AlreadyOpen(demoThread, threads)
       THEN /\ ErrorHandler(TRUE, [type |-> "Exception", msg |-> "File already open"])
            /\ UNCHANGED <<demoThread, threads, rootQueue, winPc>>
       ELSE /\ rootQueue' = <<>>
            /\ threads' = Append(threads, [state |-> "started", puts |-> 0])
            /\ demoThread' = Len(threads) + 1
            /\ winPc' = "get"
            /\ UNCHANGED <<outcome, exitCode>>
    /\ UNCHANGED <<rootWidget, kvfile, disk>>
    /\ UNCHANGED parserVars

\* demo: the toolkit calls _build, load_file succeeds, the root is put on the
\* queue and the event loop goes on
WorkerBuild(i, t) ==
    /\ i \in 1..Len(threads)
    /\ threads[i].state = "started"
    /\ rootQueue' = Append(rootQueue, RootItem(t))
    /\ threads' = [threads EXCEPT ![i].state = "running", ![i].puts = @ + 1]
    /\ UNCHANGED <<demoThread, rootWidget, kvfile, winPc, handler, outcome, before,
                   disk, calls, exitCode>>
    /\ UNCHANGED parserVars

\* demo: the toolkit calls _build, load_file raises, None is put on the queue
\* and the exception ends the thread
WorkerBuildFails(i) ==
    /\ i \in 1..Len(threads)
    /\ threads[i].state = "started"
    /\ rootQueue' = Append(rootQueue, NoneItem)
    /\ threads' = [threads EXCEPT ![i].state = "dead", ![i].puts = @ + 1]
    /\ UNCHANGED <<demoThread, rootWidget, kvfile, winPc, handler, outcome, before,
                   disk, calls, exitCode>>
    /\ UNCHANGED parserVars

\* demo: App() or app.run() raises before _build is called; nothing is put
WorkerFailsBeforeBuild(i) ==
    /\ i \in 1..Len(threads)
    /\ threads[i].state = "started"
    /\ threads' = [threads EXCEPT ![i].state = "dead"]
    /\ UNCHANGED <<demoThread, rootWidget, kvfile, rootQueue, winPc, handler, outcome,
                   before, disk, calls, exitCode>>
    /\ UNCHANGED parserVars

\* demo: app.run() returns, the thread ends
WorkerStops(i) ==
    /\ i \in 1..Len(threads)
    /\ threads[i].state = "running"
    /\ threads' = [threads EXCEPT ![i].state = "dead"]
    /\ UNCHANGED <<demoThread, rootWidget, kvfile, rootQueue, winPc, handler, outcome,
                   before, disk, calls, exitCode>>
    /\ UNCHANGED parserVars

\* openFile from the return of rootQueue.get() to its end
OpenFileResume ==
    /\ winPc = "get"
    /\ rootQueue # <<>>
    /\ LET item == Head(rootQueue)
           r == openFileRest(item, kvfile, disk) IN
       /\ rootWidget' = item
       /\ kvfile' = r.kvfile
       /\ ErrorHandler(r.raised, r.error)
    /\ rootQueue' = Tail(rootQueue)
    /\ winPc' = "idle"
    /\ UNCHANGED <<demoThread, threads, handler, before, disk, calls>>
    /\ UNCHANGED parserVars

\* saveFile: reads self.kvfile, then calls save() on it; KvFile has no save
SaveFile ==
    /\ winPc = "idle"
    /\ calls < MaxCalls
    /\ calls' = calls + 1
    /\ handler' = "saveFile"
    /\ IF kvfile = Unset
       THEN ErrorHandler(TRUE, [type |-> "AttributeError", attr |-> "kvfile"])
       ELSE IF kvfile.kind = "None"
       THEN ErrorHandler(TRUE, [type |-> "Exception", msg |-> "No file open"])
       ELSE ErrorHandler(TRUE, [type |-> "AttributeError", attr |-> "save"])
    /\ UNCHANGED <<demoThread, rootWidget, kvfile, threads, rootQueue, winPc, before, disk>>
    /\ UNCHANGED parserVars

InitWindow == ParseInit /\ WindowInit /\ disk \in WindowFiles

NextWindow ==
    \/ OpenFile
    \/ \E i \in 1..MaxCalls, t \in WindowLive : WorkerBuild(i, t)
    \/ \E i \in 1..MaxCalls : WorkerBuildFails(i)
    \/ \E i \in 1..MaxCalls : WorkerFailsBeforeBuild(i)
    \/ \E i \in 1..MaxCalls : WorkerStops(i)
    \/ OpenFileResume
    \/ SaveFile

SpecWindow == InitWindow /\ [][NextWindow]_vars

Next ==
    \/ \E line \in Lines : Len(file) < MaxLines /\ ReadLine(line)
    \/ EndOfFile

Spec == Init /\ [][Next]_vars

\* parse a short file with any leading whitespace
NextLex ==
    \/ \E line \in LexLines : Len(file) < MaxLexLines /\ ReadLine(line)
    \/ EndOfFile

SpecLex == Init /\ [][NextLex]_vars

\* parse a file of widgets and properties, then merge it with a live tree
NextMerge ==
    \/ \E line \in MergeLines : Len(file) < MaxMergeLines /\ ReadLine(line)
    \/ EndOfFile
    \/ \E t \in LiveTrees : Populate(t)

SpecMerge == Init /\ [][NextMerge]_vars

(* ====================== properties of the parser ======================= *)
\* the elements created so far (object 1 is the fake root)
Elems == 2..Len(heap)

\* e is in the elements list of its parent
AttachedIn(h, e) ==
    /\ HasAttr(h, h[e].parent, "elements")
    /\ \E i \in 1..Len(h[h[e].parent].elements) : h[h[e].parent].elements[i] = e

Attached(e) == AttachedIn(heap, e)

IsBlank(line) == line.content = <<>>

\* a line that passes indent_count and the four formats
IsElementLine(line) ==
    /\ ~IsBlank(line)
    /\ ~indent_count(line.ws).raised
    /\ rule_formats(line.content).line_type # "None"

Width(line) == indent_count(line.ws).res

\* the step reads one more line, and that line is an element line
ReadsElementLine ==
    /\ pc = "reading"
    /\ Len(file') = Len(file) + 1
    /\ IsElementLine(Last(file'))

\* the new element is the last child of parent p after the step
AppendedUnder(p) ==
    /\ pc' = "reading"
    /\ new_element' = Len(heap')
    /\ Len(heap') = Len(heap) + 1
    /\ heap'[new_element'].parent = p
    /\ HasAttr(heap', p, "elements")
    /\ heap'[p].elements # <<>>
    /\ Last(heap'[p].elements) = new_element'
    /\ heap'[new_element'].indent_level = Width(Last(file'))

\* C1: every element attached to the tree is indented strictly deeper than
\* its parent (the fake root, indent_level -1, for top-level elements),
\* after every prefix of the lines
C1_IndentationInvariant ==
    \A e \in Elems :
        Attached(e) => heap[e].indent_level > heap[heap[e].parent].indent_level

\* a nested element, and a line that left a scope, with the parse going on
C1_Witness ==
    /\ pc = "reading"
    /\ Len(heap) >= 5
    /\ \E e \in Elems : heap[e].parent # root /\ heap[heap[e].parent].parent # root
    /\ heap[new_element].indent_level < heap[new_element - 1].indent_level

\* C2: a line indented deeper than the previous one is appended as the last
\* child of the element of the previous non-blank line, whatever its kind,
\* and the parse continues
C2_DeeperNestsUnderPrevious ==
    [][ (ReadsElementLine /\ new_element # None /\ Width(Last(file')) > last_indent)
            => AppendedUnder(new_element) ]_vars

\* the chain current_root, its parent, ... up to the fake root
RECURSIVE Chain(_, _)
Chain(h, e) == IF e = None THEN <<>> ELSE <<e>> \o Chain(h, h[e].parent)

\* the nearest element of the chain with indent_level < w
NearestBelow(h, e, w) ==
    LET c == Chain(h, e)
        i == CHOOSE k \in 1..Len(c) :
                /\ h[c[k]].indent_level < w
                /\ \A j \in 1..(k - 1) : h[c[j]].indent_level >= w
    IN  c[i]

\* C3: a line indented less than the previous one is attached to the nearest
\* element of current_root's parent chain with indent_level < w, and
\* current_root is left at that element
C3_LeavingScope ==
    [][ (ReadsElementLine /\ Width(Last(file')) < last_indent)
            => /\ AppendedUnder(NearestBelow(heap, current_root, Width(Last(file'))))
               /\ current_root' = NearestBelow(heap, current_root, Width(Last(file'))) ]_vars

\* a line has left two scopes at once and landed at top level
C3_Witness ==
    /\ pc = "reading"
    /\ Len(heap) >= 5
    /\ heap[new_element].parent = root
    /\ heap[new_element - 1].parent # root
    /\ heap[heap[new_element - 1].parent].parent # root

\* C4: the first non-blank line, whatever its indentation, becomes a
\* top-level element (parent: the fake root) and the parse goes on
C4_FirstLineTopLevel ==
    [][ (ReadsElementLine /\ new_element = None) => AppendedUnder(root) ]_vars

\* C5: no element of the tree has a comment as its parent, and no comment
\* has children
C5_CommentNeverParent ==
    /\ \A e \in Elems : Attached(e) => heap[heap[e].parent].kind # "KvComment"
    /\ \A c \in Elems :
          heap[c].kind = "KvComment" =>
              (HasAttr(heap, c, "elements") => heap[c].elements = <<>>)

\* a line indented deeper than the comment before it has been read
C5_Witness ==
    /\ Len(heap) >= 4
    /\ heap[Len(heap) - 1].kind = "KvComment"
    /\ Attached(Len(heap) - 1)
    /\ heap[Len(heap)].indent_level > heap[Len(heap) - 1].indent_level

\* the outcome of parse() on a whole file
ParseFile(lines) ==
    LET st == ParseLines(ParseStart, lines) IN
    IF st.pc = "reading" /\ ~EndOfParse(st.heap).raised
    THEN [ok |-> TRUE, heap |-> st.heap]
    ELSE [ok |-> FALSE, heap |-> st.heap]

InsertAt(lines, i, line) ==
    SubSeq(lines, 1, i) \o <<line>> \o SubSeq(lines, i + 1, Len(lines))

NonBlankCount(lines) == Len(SelectSeq(lines, LAMBDA l : ~IsBlank(l)))

\* the children of e that are not comments
NonComments(h, e) ==
    IF HasAttr(h, e, "elements")
    THEN SelectSeq(h[e].elements, LAMBDA x : h[x].kind # "KvComment")
    ELSE <<>>

\* the tree h2 of the file with a comment inserted as object c has the
\* parents and the sibling order of h for all that is not a comment
SameScopes(h, h2, c) ==
    LET Map(e) == IF e < c THEN e ELSE e + 1 IN
    /\ Len(h2) = Len(h) + 1
    /\ \A e \in 2..Len(h) :
          h[e].kind # "KvComment" => h2[Map(e)].parent = Map(h[e].parent)
    /\ \A e \in 1..Len(h) :
          NonComments(h2, Map(e)) =
              [i \in 1..Len(NonComments(h, e)) |-> Map(NonComments(h, e)[i])]

\* C6: a comment inserted at any indentation between two lines of a file
\* that parses leaves the parse successful and the scopes of the other
\* elements as they were
C6_CommentsBypassScope ==
    pc = "parsed" =>
        \A i \in 1..(Len(file) - 1) : \A n \in 0..TabSize :
            LET r == ParseFile(InsertAt(file, i, [ws |-> Spaces(n), content |-> <<"#", "c">>]))
            IN  /\ r.ok
                /\ SameScopes(heap, r.heap, NonBlankCount(SubSeq(file, 1, i)) + 2)

\* C7: blank lines are skipped: after every prefix of the file the tree,
\* current_root, last_indent and new_element are those of the same lines
\* without the blank ones
C7_BlankLinesInert ==
    LET st == ParseLines(ParseStart, SelectSeq(file, LAMBDA l : ~IsBlank(l))) IN
    pc \in {"reading", "raised", "parsed"} =>
        /\ heap = st.heap
        /\ current_root = st.current_root
        /\ last_indent = st.last_indent
        /\ new_element = st.new_element
        /\ (pc = "reading" => st.pc = "reading")
        /\ (st.pc # "reading" => pc = "raised" /\ error.type = st.error.type)

\* a blank line between an indented line and the line after it
C7_Witness ==
    /\ pc = "reading"
    /\ Len(file) >= 4
    /\ IsBlank(file[Len(file) - 1])
    /\ ~IsBlank(file[Len(file)])
    /\ last_indent > 0
    /\ heap[new_element].parent # root

\* the top-level widgets, counted on the parent links
TopLevelWidgets == { e \in Elems : heap[e].kind = "KvWidget" /\ heap[e].parent = root }

\* C8: at the end of the lines, two or more top-level widgets make parse
\* fail with an assertion error (not the Exception of a line error) and
\* rootRule and elements stay unassigned; with none or one, parse succeeds
\* and rootRule is that widget or None
C8_MultipleRootsRejected ==
    [][ (pc = "reading" /\ file' = file /\ pc' # pc)
            => IF Cardinality(TopLevelWidgets) >= 2
               THEN /\ pc' = "raised"
                    /\ error'.type = "AssertionError"
                    /\ rootRule' = rootRule /\ rootRule' = None
                    /\ elements' = elements /\ elements' = <<>>
               ELSE /\ pc' = "parsed"
                    /\ elements' = heap[root].elements
                    /\ IF TopLevelWidgets = {}
                       THEN rootRule' = None
                       ELSE rootRule' \in TopLevelWidgets ]_vars

\* a file with two top-level widgets has been rejected
C8_Witness ==
    /\ pc = "raised"
    /\ error.type = "AssertionError"
    /\ Cardinality(TopLevelWidgets) >= 2
    /\ rootRule = None

(* ======================= properties of the merge ======================= *)
\* the declared widget children of e, in file order
WidgetChildren(e) == SelectSeq(heap[e].elements, LAMBDA x : is_widget(heap, x))

\* populate failed in the call on element e
FailedAt(e, at) ==
    /\ pc = "raised"
    /\ error.type = "AssertionError"
    /\ error.at = at
    /\ error.self = e

\* C9: a node with declared widget children p1..pk merged with a live
\* widget with children c1..cn, k <= n: every populate call on pi is given
\* c(n-i+1), after a successful merge every pi holds c(n-i+1), and the
\* first n-k live children are paired with nothing
C9_ReversePairing ==
    \A a \in 1..Len(assigned) :
        LET p == WidgetChildren(assigned[a][1])
            c == live.children[assigned[a][2]]
            k == Len(p)
            n == Len(c)
        IN  k <= n =>
              /\ \A i \in 1..k :
                    /\ \A m \in 1..Len(assigned) :
                          assigned[m][1] = p[i] => assigned[m][2] = c[n - i + 1]
                    /\ FailedAt(p[i], "name") => error.widget = c[n - i + 1]
                    /\ pc = "populated" =>
                          /\ heap[p[i]].widget = c[n - i + 1]
                          /\ \E m \in 1..Len(assigned) : assigned[m] = <<p[i], c[n - i + 1]>>
              /\ \A j \in 1..(n - k) :
                    \A m \in 1..Len(assigned) : assigned[m][2] # c[j]

\* a merged node with a property and a widget as children and more live
\* children than declared widgets
C9_Witness ==
    /\ pc = "populated"
    /\ Len(WidgetChildren(rootRule)) >= 1
    /\ Len(heap[rootRule].elements) > Len(WidgetChildren(rootRule))
    /\ Len(live.children[1]) > Len(WidgetChildren(rootRule))

\* C10: in every populate call, at any depth, the merge fails on the child
\* count exactly when the node has more declared widgets than the live
\* widget has children, and then none of these declared widgets is populated
C10_ChildCountCheck ==
    \A a \in 1..Len(assigned) :
        LET e == assigned[a][1]
            p == WidgetChildren(e)
            c == live.children[assigned[a][2]]
        IN  IF Len(p) > Len(c)
            THEN /\ FailedAt(e, "children")
                 /\ \A i \in 1..Len(p) :
                       /\ heap[p[i]].widget = None
                       /\ \A m \in 1..Len(assigned) : assigned[m][1] # p[i]
            ELSE ~FailedAt(e, "children")

\* the count check has failed in a recursive call, below the merged root
C10_Witness ==
    /\ FailedAt(error.self, "children")
    /\ error.self # rootRule
    /\ Len(assigned) >= 2

\* e and the elements below it
Subtree(e) == { d \in Elems : \E i \in 1..Len(Chain(heap, d)) : Chain(heap, d)[i] = e }

\* C11: a populate call on a node whose name is not the simple type name of
\* the live widget fails before any assignment: the widget field of the node
\* and of everything below it is left as it was (None), and every
\* assignment that was made passed the check
C11_TypeCheckFirst ==
    /\ \A e \in Elems :
          FailedAt(e, "name") =>
              /\ heap[e].name # SimpleName(live.type[error.widget])
              /\ \A d \in Subtree(e) :
                    /\ HasAttr(heap, d, "widget") => heap[d].widget = None
                    /\ \A m \in 1..Len(assigned) : assigned[m][1] # d
    /\ \A m \in 1..Len(assigned) :
          heap[assigned[m][1]].name = SimpleName(live.type[assigned[m][2]])

\* the type check has failed on a declared child that has a widget below it
C11_Witness ==
    /\ FailedAt(error.self, "name")
    /\ error.self # rootRule
    /\ WidgetChildren(error.self) # <<>>

(* ==================== properties of lines and widths =================== *)
\* the column after the leading whitespace s, started at column col
RECURSIVE Column(_, _)
Column(s, col) ==
    IF s = <<>> THEN col
    ELSE IF Head(s) = "\t"
         THEN Column(Tail(s), ((col \div 8) + 1) * 8)
         ELSE Column(Tail(s), col + 1)

SpacesAndTabs(s) == \A i \in 1..Len(s) : s[i] \in {" ", "\t"}

\* a tab comes before a space in the leading whitespace s
TabBeforeSpace(s) ==
    /\ SpacesAndTabs(s)
    /\ \E i, j \in 1..Len(s) : i < j /\ s[i] = "\t" /\ s[j] = " "

RaisedInvalidChar(p, e) == p = "raised" /\ e.type = "Exception" /\ e.msg = "Invalid char"

\* C12 as stated: a line with a tab before a space in its leading whitespace
\* makes the parse fail with an error that names the line number, and
\* nothing is added to the tree
C12_TabInvalid ==
    [][ (pc = "reading" /\ Len(file') = Len(file) + 1 /\ ~IsBlank(Last(file'))
            /\ TabBeforeSpace(Last(file').ws))
            => /\ pc' = "raised"
               /\ error'.type = "Exception"
               /\ "line_no" \in DOMAIN error'
               /\ error'.line_no = Len(file')
               /\ heap' = heap ]_vars

\* C12 amended: a line of one of the four formats with a tab before a space
\* in its leading whitespace raises no indentation or format error; its
\* element is created with the tab expanded to the next multiple of 8
C12_TabExpanded ==
    [][ ( /\ pc = "reading"
          /\ Len(file') = Len(file) + 1
          /\ rule_formats(Last(file').content).line_type # "None"
          /\ TabBeforeSpace(Last(file').ws) )
            => /\ error'.type # "Exception"
               /\ Len(heap') = Len(heap) + 1
               /\ heap'[Len(heap')].indent_level = Column(Last(file').ws, 0) ]_vars

\* a line indented by a tab and a space has become an element of width 9
C12_Witness ==
    /\ pc = "reading"
    /\ Len(file) >= 2
    /\ Last(file).ws = <<"\t", " ">>
    /\ new_element = Len(heap)
    /\ heap[new_element].indent_level = 9

\* C13: for leading whitespace of spaces and tabs the width of the line is
\* the column reached when a tab advances to the next multiple of 8 (tab 8,
\* space+tab 8, tab+space 9, tab+tab 16); any other character in the
\* leading whitespace of a non-blank line makes the parse fail
C13_IndentWidth ==
    /\ indent_count(<<"\t">>) = [raised |-> FALSE, res |-> 8]
    /\ indent_count(<<" ", "\t">>) = [raised |-> FALSE, res |-> 8]
    /\ indent_count(<<"\t", " ">>) = [raised |-> FALSE, res |-> 9]
    /\ indent_count(<<"\t", "\t">>) = [raised |-> FALSE, res |-> 16]
    /\ (Len(file) >= 1 /\ ~IsBlank(Last(file))) =>
          IF SpacesAndTabs(Last(file).ws)
          THEN /\ ~RaisedInvalidChar(pc, error)
               /\ rule_formats(Last(file).content).line_type # "None" =>
                     heap[Len(heap)].indent_level = Column(Last(file).ws, 0)
          ELSE RaisedInvalidChar(pc, error)

\* a line indented by a space and a tab has become an element of width 8
C13_Witness ==
    /\ pc = "reading"
    /\ Len(file) >= 2
    /\ Last(file).ws = <<" ", "\t">>
    /\ new_element = Len(heap)
    /\ heap[new_element].indent_level = 8

\* C14: a non-blank line of none of the four formats ends the parse with an
\* error that carries the physical line number (blank lines counted) and the
\* line; nothing is added to the tree, rootRule and elements stay unassigned
C14_UnclassifiableLine ==
    [][ (pc = "reading" /\ Len(file') = Len(file) + 1 /\ ~IsBlank(Last(file'))
            /\ rule_formats(Last(file').content).line_type = "None")
            => /\ pc' = "raised"
               /\ error'.type = "Exception"
               /\ "line_no" \in DOMAIN error'
               /\ error'.line_no = Len(file')
               /\ error'.line = Last(file')
               /\ heap' = heap
               /\ rootRule' = None /\ elements' = <<>> ]_vars

(* ============================= round trip ============================== *)
\* the text of an element, rebuilt from its kind and fields
Shape(el) ==
    IF el.kind = "KvComment" THEN <<"#">> \o el.text
    ELSE IF el.kind = "KvWidget" THEN el.name \o <<":">>
    ELSE IF el.kind = "KvClassRule" THEN <<"<">> \o el.name \o <<">", ":">>
    ELSE el.name \o <<":", " ">> \o el.value

\* the lines of the elements es and of all below them, depth first; a line
\* is indent_level spaces and the shape of the element
RECURSIVE Serialize(_, _)
Serialize(h, es) ==
    IF es = <<>> THEN <<>>
    ELSE LET e == Head(es) IN
         <<[ws |-> Spaces(h[e].indent_level), content |-> Shape(h[e])]>>
            \o (IF HasAttr(h, e, "elements") THEN Serialize(h, h[e].elements) ELSE <<>>)
            \o Serialize(h, Tail(es))

\* C15: the tree of a file that parses, written back depth first and parsed
\* again, gives the same tree: kinds, fields, indent levels, parents and
\* the order of the children
C15_RoundTrip ==
    pc = "parsed" =>
        LET r == ParseFile(Serialize(heap, heap[root].elements))
        IN  r.ok /\ r.heap = heap

\* a parsed file with a blank line, a tab-indented line and a property,
\* so that the lines written back are not the lines read
C15_Witness ==
    /\ pc = "parsed"
    /\ \E i \in 1..Len(file) : IsBlank(file[i])
    /\ \E i \in 1..Len(file) : ~IsBlank(file[i]) /\ file[i].ws = <<"\t">>
    /\ \E e \in Elems : heap[e].kind = "KvProperty"
    /\ Serialize(heap, heap[root].elements) # file

(* ========================== the ancestor walk ========================== *)
\* the widths a line can have
Widths == 0..(MaxWs * TabSize)

\* C18: the walk up the parents never runs out of ancestors: the assertion
\* `current_root.parent is not None` has not failed, and from every state of
\* the loop the walk stops at or before the fake root for every width >= 0
C18_WalkStopsAtRoot ==
    /\ ~(pc = "raised" /\ error.type = "AssertionError" /\ error.at = "walk")
    /\ pc = "reading" =>
          \A w \in Widths :
              /\ ~WalkUp(heap, current_root, w).raised
              /\ WalkUp(heap, current_root, w).current_root \in 1..Len(heap)

\* a line at width 0 after a nested line: the walk has gone up to the root
C18_Witness ==
    /\ pc = "reading"
    /\ new_element >= 3
    /\ heap[new_element].indent_level = 0
    /\ heap[new_element].parent = root
    /\ heap[new_element - 1].parent # root

(* ======================= the merge as a whole ========================== *)
\* C19: after a successful merge of a freshly parsed tree, every widget
\* below rootRule (rootRule included) has been assigned exactly once, to a
\* live widget whose simple type name is its name, and nothing else has
\* changed: comments, properties, class rules and the other fields are as
\* parsed
C19_MergePostcondition ==
    pc = "populated" =>
        LET h0 == ParseLines(ParseStart, file).heap IN
        /\ Len(heap) = Len(h0)
        /\ heap[root] = h0[root]
        /\ \A e \in Elems :
              IF e \in Subtree(rootRule) /\ heap[e].kind = "KvWidget"
              THEN /\ h0[e].widget = None
                   /\ Cardinality({ m \in 1..Len(assigned) : assigned[m][1] = e }) = 1
                   /\ \E m \in 1..Len(assigned) : assigned[m] = <<e, heap[e].widget>>
                   /\ heap[e].widget \in 1..Len(live.type)
                   /\ heap[e].name = SimpleName(live.type[heap[e].widget])
                   /\ heap[e] = [h0[e] EXCEPT !.widget = heap[e].widget]
              ELSE heap[e] = h0[e]

\* a merged tree of at least two widgets and a property
C19_Witness ==
    /\ pc = "populated"
    /\ Len(assigned) >= 2
    /\ \E e \in Elems : heap[e].kind = "KvProperty"
(* ============================ the main window ========================== *)
\* the worker threads started by the window that are alive
AliveWorkers == { i \in 1..Len(threads) : is_alive(threads[i]) }

\* the last handler was an openFile that ended with an exception other than
\* the rejection "File already open"
OpenFailed ==
    /\ handler = "openFile"
    /\ winPc = "idle"
    /\ outcome.raised
    /\ outcome.error # [type |-> "Exception", msg |-> "File already open"]

\* C16 as stated: every execution of the worker thread puts exactly one item
\* on rootQueue: never more than one, and one as soon as the thread is past
\* the point where build is called, also when the toolkit failed before or
\* without calling build
C16_OneShotHandoff ==
    \A i \in 1..Len(threads) :
        /\ threads[i].puts <= 1
        /\ threads[i].state # "started" => threads[i].puts = 1

\* C17 as stated: after an openFile that failed, demoThread, rootWidget and
\* kvfile are as they were before the call
C17_FailedOpenKeepsState == OpenFailed => Fields = before

\* C20: at most one worker thread started by the window is alive in every
\* state, and an openFile issued while a worker is alive ends with "File
\* already open" without a new thread or a new queue and without a change of
\* demoThread, rootWidget and kvfile
C20_AtMostOneWorker ==
    [][ /\ Cardinality(AliveWorkers') <= 1
        /\ (handler' = "openFile" /\ calls' = calls + 1 /\ AliveWorkers # {}) =>
              /\ outcome' = [raised |-> TRUE,
                             error |-> [type |-> "Exception", msg |-> "File already open"]]
              /\ winPc' = "idle"
              /\ UNCHANGED <<threads, rootQueue, demoThread, rootWidget, kvfile>> ]_vars

\* a second worker is alive after the first one ended, and an openFile was
\* rejected because of it
C20_Witness ==
    /\ handler = "openFile"
    /\ outcome = [raised |-> TRUE,
                  error |-> [type |-> "Exception", msg |-> "File already open"]]
    /\ Len(threads) = 2
    /\ ~is_alive(threads[1])
    /\ is_alive(threads[2])
    /\ demoThread = 2

====
